---- MODULE Spec2Model ----
(***************************************************************************)
(* Model of edk2toolext/invocables/edk2_setup.py: Edk2PlatformSetup.Go,    *)
(* its standard sync/fetch path and the recursive SpecialSetup walk.       *)
(*                                                                         *)
(* Every external interaction (a RunCmd call, a file read) is one action;  *)
(* its exit status or content is chosen by the environment.  The Python    *)
(* code that runs between two interactions belongs to the action of the    *)
(* interaction that precedes it.                                           *)
(*                                                                         *)
(* RunCmd (edk2toollib) is an external collaborator.  The handlers of this *)
(* file catch RuntimeError around calls made with                          *)
(* raise_exception_on_nonzero=True, so a nonzero exit of such a call is    *)
(* modelled as a RuntimeError.  A call whose working directory does not    *)
(* exist cannot be spawned: subprocess raises an OSError, which no handler *)
(* of this file catches.                                                   *)
(***************************************************************************)
EXTENDS Integers, Sequences, FiniteSets, TLC

\* ---------------------------------------------------------------- bounds
MaxReq == 2      \* longest list GetRequiredSubmodules returns
MaxRules == 1    \* longest url_substitutions list of a SpecialSetup run
MaxNested == 3   \* most nested records read in one run, over all .gitmodules

\* ---------------------------------------------------------------- values
\* workspace relative paths a settings provider may declare
Paths == {"Common/Nt", "Silicon/Arm"}
\* paths of the sections of a nested .gitmodules, by position
KidPaths == <<"ext/a", "ext/b">>
\* strings are tuples of characters so that str.lower() can be computed
\* urls of .gitmodules sections, urls of substitution rules, replacements
Urls == {<<"a">>, <<"B">>}
RuleUrls == {<<"b">>}
Subs == {<<"x">>}
\* Python's None, and the absence of a key in a dict
None == <<"None">>
Missing == <<"missing">>
KeyError == <<"KeyError">>
\* the workspace root as a repository path
workspace_path == <<>>

VARIABLES
    required_submodules,  \* PlatformSettings.GetRequiredSubmodules()
    force_it,             \* --force
    omnicache_path,       \* --omnicache, None when not given
    special_file,         \* --special, None when not given
    exists,               \* workspace relative paths present on disk
    pc,                   \* position of Go
    idx,                  \* index of the for loop over required_submodules
    cmds,                 \* every command RunCmd has spawned, oldest first
    errlog,               \* every logging.error message, oldest first
    ret,                  \* outcome of Go
    special_config,       \* the loaded special configuration document
    root_submodules,      \* get_repo_submodules(workspace root)
    top,                  \* <<i, j>>: positions of the two loops of SpecialSetup
    stack,                \* active special_init_submodule calls, outermost first
    url_sub,              \* url_sub of the innermost special_init_submodule
    nested                \* nested records read so far (repository path, url), oldest first

vars == <<required_submodules, force_it, omnicache_path, special_file, exists,
          pc, idx, cmds, errlog, ret, special_config, root_submodules, top,
          stack, url_sub, nested>>

inputs == <<required_submodules, force_it, omnicache_path, special_file>>
special_vars == <<special_config, root_submodules, top, stack, url_sub, nested>>

\* ------------------------------------------------------------ helpers
\* all sequences over S of length at most n
SeqsUpTo(S, n) == UNION {[1..k -> S] : k \in 0..n}

\* RequiredSubmodule(path, recursive)
RequiredSubmodule == [path : Paths, recursive : BOOLEAN]

\* os.path.normpath(os.path.join(root_path, path))
JoinPath(root_path, path) == Append(root_path, path)

\* one RunCmd("git", ...) invocation that was spawned: the subcommand, the
\* working directory, the names or paths it is given, its options, the url it
\* is given (set-url only), its exit status and the output captured from it
\* (outstream, git diff only).  The read-only "git --version" probe of line 94
\* is not recorded.
Cmd(op, wd, target, opt, url, rc, out) ==
    [op |-> op, wd |-> wd, target |-> target, opt |-> opt, url |-> url, rc |-> rc,
     out |-> out]

\* exit statuses of an external command
ExitCodes == {0, 1}

\* logging.error
LogError(log, msg, what) == Append(log, [msg |-> msg, what |-> what])

\* ------------------------------------------------------------ Init
Init ==
    /\ required_submodules \in SeqsUpTo(RequiredSubmodule, MaxReq)
    /\ force_it \in BOOLEAN
    /\ special_file \in {None, <<"special.yml">>}
    \* the omnicache is read by the standard fetch only
    /\ omnicache_path \in IF special_file = None THEN {None, <<"omnicache">>} ELSE {None}
    \* os.path.exists is consulted by the forced clean and by STEP 2a only; a
    \* run that reaches neither starts from one representative disk
    /\ exists \in IF special_file # None /\ ~force_it THEN {Paths} ELSE SUBSET Paths
    /\ pc = "git_version"
    /\ idx = 0
    /\ cmds = <<>>
    /\ errlog = <<>>
    /\ ret = "running"
    /\ special_config = [kind |-> "unloaded", url_substitutions |-> <<>>]
    /\ root_submodules = <<>>
    /\ top = <<0, 0>>
    /\ stack = <<>>
    /\ url_sub = None
    /\ nested = <<>>

\* ------------------------------------------------------------ Go, lines 89-104
\* "git --version" output: git absent, or the first three version fields
GitVersions == {<<1, 99, 9>>, <<2, 10, 5>>, <<2, 11, 0>>, <<2, 40, 1>>}
min_git == <<2, 11, 0>>

\* version_compare(a, b) > 0 on three-field versions
VersionGreater(a, b) ==
    \/ a[1] > b[1]
    \/ a[1] = b[1] /\ a[2] > b[2]
    \/ a[1] = b[1] /\ a[2] = b[2] /\ a[3] > b[3]

\* a dispatch without the guard of line 140
AfterCleanNoGuard ==
    /\ pc' = IF special_file # None THEN "special_load" ELSE "sync"
    /\ ret' = ret

\* lines 139-143 and 209: after the version check and the optional clean Go
\* enters SpecialSetup or the sync, or returns 0 when nothing is declared
AfterClean ==
    IF Len(required_submodules) > 0
    THEN /\ pc' = IF special_file # None THEN "special_load" ELSE "sync"
         /\ ret' = ret
    ELSE /\ pc' = "done"
         /\ ret' = "0"

GitVersionCheck ==
    /\ pc = "git_version"
    /\ \E out \in {Missing} \cup GitVersions :
        IF out = Missing
        THEN pc' = "done" /\ ret' = "raise RuntimeError"
        ELSE IF VersionGreater(min_git, out)
        THEN pc' = "done" /\ ret' = "raise RuntimeError"
        ELSE IF force_it
        THEN pc' = "clean_root_reset" /\ ret' = ret
        ELSE AfterClean
    /\ UNCHANGED <<inputs, exists, idx, cmds, errlog, special_vars>>

\* ------------------------------------------------------------ Go, lines 106-137
\* a clean handler that reports the failure by its status
CleanFailedStatus(what) ==
    /\ errlog' = LogError(errlog, "Error while trying to clean the environment!", what)
    /\ pc' = "done"
    /\ ret' = "-1"

\* a clean handler without its return: the run goes on after the log
CleanFailedFallsThrough(what) ==
    /\ errlog' = LogError(errlog, "Error while trying to clean the environment!", what)
    /\ AfterClean

\* the except RuntimeError block of the pre-setup cleaning: log and "return"
CleanFailed(what) ==
    /\ errlog' = LogError(errlog, "Error while trying to clean the environment!", what)
    /\ pc' = "done"
    /\ ret' = "None"

\* RunCmd("git", "reset --hard", workingdir=workspace_path, raise...)
CleanRootReset ==
    /\ pc = "clean_root_reset"
    /\ \E rc \in ExitCodes :
        /\ cmds' = Append(cmds, Cmd("reset", workspace_path, <<>>, <<"--hard">>, None, rc, ""))
        /\ IF rc # 0
           THEN CleanFailed(workspace_path)
           ELSE pc' = "clean_root_clean" /\ UNCHANGED <<errlog, ret>>
    /\ UNCHANGED <<inputs, exists, idx, special_vars>>

\* RunCmd("git", "clean -xffd -e ...", workingdir=workspace_path, raise...)
CleanRootClean ==
    /\ pc = "clean_root_clean"
    /\ \E rc \in ExitCodes :
        /\ cmds' = Append(cmds, Cmd("clean", workspace_path, <<>>,
                                    <<"-xffd", "-e Build/SETUPLOG.txt", "-e Build/SETUPLOG.md">>,
                                    None, rc, ""))
        /\ IF rc # 0
           THEN CleanFailed(workspace_path) /\ idx' = idx
           ELSE /\ IF Len(required_submodules) > 0
                   THEN pc' = "clean_sub_reset" /\ idx' = 1 /\ ret' = ret
                   ELSE AfterClean /\ idx' = idx
                /\ errlog' = errlog
    /\ UNCHANGED <<inputs, exists, special_vars>>

\* RunCmd("git", "reset --hard", workingdir=required_submodule_path, raise...)
CleanSubReset ==
    /\ pc = "clean_sub_reset"
    /\ LET path == required_submodules[idx].path
           required_submodule_path == JoinPath(workspace_path, path)
       IN IF path \notin exists
          THEN \* the working directory is absent: the spawn raises an OSError
               /\ pc' = "done"
               /\ ret' = "raise OSError"
               /\ UNCHANGED <<cmds, errlog>>
          ELSE \E rc \in ExitCodes :
               /\ cmds' = Append(cmds, Cmd("reset", required_submodule_path, <<>>,
                                           <<"--hard">>, None, rc, ""))
               /\ IF rc # 0
                  THEN CleanFailed(required_submodule_path)
                  ELSE pc' = "clean_sub_clean" /\ UNCHANGED <<errlog, ret>>
    /\ UNCHANGED <<inputs, exists, idx, special_vars>>

\* RunCmd("git", "clean -xffd", workingdir=required_submodule_path, raise...)
CleanSubClean ==
    /\ pc = "clean_sub_clean"
    /\ LET path == required_submodules[idx].path
           required_submodule_path == JoinPath(workspace_path, path)
       IN \E rc \in ExitCodes :
          /\ cmds' = Append(cmds, Cmd("clean", required_submodule_path, <<>>,
                                      <<"-xffd">>, None, rc, ""))
          /\ IF rc # 0
             THEN CleanFailed(required_submodule_path) /\ idx' = idx
             ELSE /\ IF idx < Len(required_submodules)
                     THEN pc' = "clean_sub_reset" /\ idx' = idx + 1 /\ ret' = ret
                     ELSE AfterClean /\ idx' = 0
                  /\ errlog' = errlog
    /\ UNCHANGED <<inputs, exists, special_vars>>

\* ------------------------------------------------------------ Go, lines 145-158
\* " ".join([x.path for x in required_submodules])
submodule_string == [i \in 1..Len(required_submodules) |-> required_submodules[i].path]

\* the sync command run with raise_exception_on_nonzero=False
SyncNeverRaises(rc) == FALSE

\* lines 150-151: raise_exception_on_nonzero=True
SyncRaises(rc) == rc # 0

\* RunCmd("git", "submodule sync -- ...", workingdir=workspace_path, raise...)
Sync ==
    /\ pc = "sync"
    /\ \E rc \in ExitCodes :
        /\ cmds' = Append(cmds, Cmd("sync", workspace_path, submodule_string, <<>>, None, rc, ""))
        /\ IF SyncRaises(rc)
           THEN /\ errlog' = LogError(errlog, "Error while trying to synchronize the environment!",
                                      workspace_path)
                /\ pc' = "done"
                /\ ret' = "None"
                /\ idx' = idx
           ELSE /\ pc' = "submodule"
                /\ idx' = 1
                /\ UNCHANGED <<errlog, ret>>
    /\ UNCHANGED <<inputs, exists, special_vars>>

\* ------------------------------------------------------------ Go, lines 162-207
\* the end of one iteration of the for loop of STEP 2; line 209 after the last
NextSubmodule ==
    IF idx < Len(required_submodules)
    THEN pc' = "submodule" /\ idx' = idx + 1 /\ ret' = ret
    ELSE pc' = "done" /\ idx' = idx /\ ret' = "0"

\* a dirty check that does not look at force_it
NeedsDirtyQueryIfExists(i) == required_submodules[i].path \in exists

\* os.path.exists(required_submodule_path) and not self.force_it
NeedsDirtyQuery(i) == required_submodules[i].path \in exists /\ ~force_it

\* a dirty check that never sets skip_repo
SkipRepoNever(git_data) == FALSE

\* lines 180-183: skip_repo = True when the diff printed anything
SkipRepo(git_data) == git_data # ""

\* a dirty query run with raise_exception_on_nonzero=False
DiffNeverRaises(rc) == FALSE

\* lines 174-175: raise_exception_on_nonzero=True
DiffRaises(rc) == rc # 0

\* STEP 2a: RunCmd("git", "diff " + path, outstream=..., raise...)
DirtyQuery ==
    /\ pc = "submodule"
    /\ NeedsDirtyQuery(idx)
    /\ LET path == required_submodules[idx].path IN
       \E rc \in ExitCodes, git_data \in {"", "diff --git"} :
        /\ rc # 0 => git_data = ""
        /\ cmds' = Append(cmds, Cmd("diff", workspace_path, <<path>>, <<>>, None, rc, git_data))
        /\ IF DiffRaises(rc)
           THEN \* RuntimeError, caught by the handler of this iteration
                /\ errlog' = LogError(errlog, "Failed to fetch required repository!", <<path>>)
                /\ NextSubmodule
           ELSE IF SkipRepo(git_data)
           THEN \* skip_repo = True, and force_it is false here
                /\ errlog' = errlog
                /\ NextSubmodule
           ELSE /\ errlog' = errlog
                /\ pc' = "fetch"
                /\ idx' = idx
                /\ ret' = ret
    /\ UNCHANGED <<inputs, exists, special_vars>>

\* the "submodule update --init" command string of lines 189-195
FetchOpts(required_submodule) ==
    <<"--init">>
    \o (IF required_submodule.recursive THEN <<"--recursive">> ELSE <<>>)
    \o <<"--progress">>
    \o (IF omnicache_path # None THEN <<"--reference">> \o omnicache_path ELSE <<>>)

\* a failed checkout that ends the run the way a failed sync does
FetchDoneAbort(rc) ==
    IF rc # 0
    THEN pc' = "done" /\ idx' = idx /\ ret' = "None"
    ELSE NextSubmodule

\* lines 198-207: the RuntimeError of a failed checkout is caught inside the
\* loop body, and the loop goes on
FetchDone(rc) == NextSubmodule

\* STEP 2b: RunCmd("git", "submodule update --init ...", raise...=False)
Fetch ==
    /\ \/ pc = "fetch"
       \/ pc = "submodule" /\ ~NeedsDirtyQuery(idx)
    /\ LET required_submodule == required_submodules[idx]
           path == required_submodule.path
       IN \E rc \in ExitCodes :
          /\ cmds' = Append(cmds, Cmd("update", workspace_path, <<path>>,
                                      FetchOpts(required_submodule), None, rc, ""))
          /\ IF rc # 0
             THEN /\ errlog' = LogError(LogError(errlog, "Failed to fetch", <<path>>),
                                        "Failed to fetch required repository!", <<path>>)
                  \* a failed checkout may or may not have created the directory
                  /\ exists' \in {exists, exists \cup {path}}
             ELSE /\ errlog' = errlog
                  /\ exists' = exists \cup {path}
          /\ FetchDone(rc)
    /\ UNCHANGED <<inputs, special_vars>>

\* ------------------------------------------------------------ SpecialSetup, lines 212-216
\* str.lower() of one character and of a string
LowerChar(c) == CASE c = "A" -> "a" [] c = "B" -> "b" [] OTHER -> c
Lower(str) == [i \in DOMAIN str |-> LowerChar(str[i])]

\* one entry of url_substitutions; Missing stands for an absent key
Rule == [url : RuleUrls \cup {Missing}, sub : Subs \cup {Missing}]

\* what yaml.load may return: a mapping with or without 'url_substitutions'
SpecialConfigs ==
    {[kind |-> "no_key", url_substitutions |-> <<>>]}
    \cup [kind : {"ok"}, url_substitutions : SeqsUpTo(Rule, MaxRules)]

\* get_url_substitution_from_list comparing the urls as written
RECURSIVE get_url_substitution_case_sensitive(_, _)
get_url_substitution_case_sensitive(url, sub_list) ==
    IF sub_list = <<>>
    THEN None
    ELSE LET sub == Head(sub_list) IN
         IF sub.url = Missing
         THEN KeyError
         ELSE IF url = sub.url
         THEN IF sub.sub = Missing THEN KeyError ELSE sub.sub
         ELSE get_url_substitution_case_sensitive(url, Tail(sub_list))

\* lines 229-236
RECURSIVE get_url_substitution_from_list(_, _)
get_url_substitution_from_list(url, sub_list) ==
    IF sub_list = <<>>
    THEN None
    ELSE LET sub == Head(sub_list) IN
         IF sub.url = Missing
         THEN KeyError
         ELSE IF Lower(url) = Lower(sub.url)
         THEN IF sub.sub = Missing THEN KeyError ELSE sub.sub
         ELSE get_url_substitution_from_list(url, Tail(sub_list))

\* line 243: special_config['url_substitutions'] raises when the key is absent
UrlSubOf(submodule_info, config) ==
    IF config.kind # "ok"
    THEN KeyError
    ELSE get_url_substitution_from_list(submodule_info.url, config.url_substitutions)

\* ------------------------------------------------------------ get_repo_submodules, lines 217-227
\* str(section).replace('submodule "', '').replace('"', '')
StripName(section) == SelectSeq(section, LAMBDA tok : tok \notin {"submodule \"", "\""})[1]

get_repo_submodules(sections) ==
    [i \in DOMAIN sections |->
        [name |-> StripName(sections[i].section),
         path |-> sections[i].path,
         url |-> sections[i].url]]

Section(path, url) ==
    [section |-> <<"submodule \"", path, "\"">>, path |-> path, url |-> url]

\* .gitmodules of the workspace root: sections with distinct paths
RootManifests ==
    {[i \in DOMAIN ps |-> Section(ps[i], us[i])] :
        <<ps, us>> \in {pu \in SeqsUpTo(Paths, Cardinality(Paths)) \X SeqsUpTo(Urls, Cardinality(Paths)) :
                          /\ Len(pu[1]) = Len(pu[2])
                          /\ \A i, j \in DOMAIN pu[1] : i # j => pu[1][i] # pu[1][j]}}

\* .gitmodules of a submodule: n sections, the i-th at KidPaths[i]
NestedManifests(n) ==
    {[i \in DOMAIN us |-> Section(KidPaths[i], us[i])] : us \in SeqsUpTo(Urls, n)}

\* ------------------------------------------------------------ SpecialSetup, lines 272-289
\* the next pair of the loops of lines 276-279 whose paths are equal, after
\* pair p; <<0, 0>> when the loops are exhausted
RECURSIVE NextPair(_, _, _)
NextPair(rs, i, j) ==
    IF i > Len(rs) THEN <<0, 0>>
    ELSE IF j > Len(required_submodules) THEN NextPair(rs, i + 1, 1)
    ELSE IF rs[i].path = required_submodules[j].path THEN <<i, j>>
    ELSE NextPair(rs, i, j + 1)

\* the call of the innermost active special_init_submodule
Frame(stk) == stk[Len(stk)]
Current(stk) == Head(Frame(stk).todo)
Front(stk) == SubSeq(stk, 1, Len(stk) - 1)

\* lines 239-244: entry of special_init_submodule up to its first command
BeginCall(stk) ==
    /\ stack' = stk
    /\ LET r == UrlSubOf(Current(stk), special_config) IN
       IF r = KeyError
       THEN pc' = "done" /\ ret' = "raise KeyError" /\ url_sub' = url_sub
       ELSE /\ url_sub' = r
            /\ pc' = IF r # None THEN "set_url" ELSE "init"
            /\ ret' = ret

\* a top-level call that leaves the recursive argument to its default (line 238)
RecursiveDefault(j) == TRUE

\* line 282: recursive=req_sm.recursive
RecursiveOf(j) == required_submodules[j].recursive

\* loops that end with a failure status when a required path has no record
TopContinueStrict(rs, i, j) ==
    LET p == NextPair(rs, i, j) IN
    /\ top' = p
    /\ IF p = <<0, 0>>
       THEN /\ pc' = "done"
            /\ ret' = IF \E r \in DOMAIN required_submodules :
                             \A n \in DOMAIN rs : rs[n].path # required_submodules[r].path
                      THEN "-1" ELSE "0"
            /\ stack' = <<>>
            /\ url_sub' = url_sub
       ELSE BeginCall(<<[root_path |-> workspace_path,
                         todo |-> <<rs[p[1]]>>,
                         recursive |-> RecursiveOf(p[2])]>>)

\* lines 276-283 from pair <<i, j>> on: the next required record is
\* initialised, or the loops end and line 289 returns 0
TopContinue(rs, i, j) ==
    LET p == NextPair(rs, i, j) IN
    /\ top' = p
    /\ IF p = <<0, 0>>
       THEN /\ pc' = "done"
            /\ ret' = "0"
            /\ stack' = <<>>
            /\ url_sub' = url_sub
       ELSE BeginCall(<<[root_path |-> workspace_path,
                         todo |-> <<rs[p[1]]>>,
                         recursive |-> RecursiveOf(p[2])]>>)

\* a loop over the nested submodules that ends after its first entry
RECURSIVE UnwindFirstOnly(_)
UnwindFirstOnly(stk) ==
    IF stk = <<>> THEN <<>> ELSE UnwindFirstOnly(Front(stk))

\* the frames left once the innermost call has returned True: a frame whose
\* loop (lines 264-268) is exhausted returns True to its caller in turn
RECURSIVE Unwind(_)
Unwind(stk) ==
    IF stk = <<>> THEN <<>>
    ELSE LET f == Frame(stk)
             rest == Tail(f.todo)
         IN IF rest # <<>>
            THEN Append(Front(stk), [f EXCEPT !.todo = rest])
            ELSE Unwind(Front(stk))

\* line 270: return True
ReturnTrue ==
    LET stk == Unwind(stack) IN
    IF stk # <<>>
    THEN BeginCall(stk) /\ top' = top
    ELSE TopContinue(root_submodules, top[1], top[2] + 1)

\* a best-effort walk: a failed submodule is logged and the walk goes on with
\* the next sibling
ReturnFalseBestEffort(msg, repo_path) ==
    /\ errlog' = LogError(errlog, msg, repo_path)
    /\ ReturnTrue

\* return False at any level: every caller returns False (lines 265-268),
\* line 283 raises RuntimeError and lines 284-287 log it and return -1
ReturnFalse(msg, repo_path) ==
    /\ errlog' = LogError(LogError(errlog, msg, repo_path), "failed to init",
                          JoinPath(workspace_path, root_submodules[top[1]].path))
    /\ pc' = "done"
    /\ ret' = "-1"
    /\ stack' = <<>>
    /\ UNCHANGED <<top, url_sub>>

\* lines 213-215: open() and yaml.load()
SpecialLoad ==
    /\ pc = "special_load"
    /\ \/ \* the file cannot be read or is not YAML
          /\ pc' = "done"
          /\ \E e \in {"raise OSError", "raise YAMLError"} : ret' = e
          /\ UNCHANGED special_config
       \/ /\ special_config' \in SpecialConfigs
          /\ pc' = "root_manifest"
          /\ ret' = ret
    /\ UNCHANGED <<inputs, exists, idx, cmds, errlog, root_submodules, top, stack,
                   url_sub, nested>>

\* lines 274-275: get_repo_submodules(repo_path=root_path)
ReadRootManifest ==
    /\ pc = "root_manifest"
    /\ \/ \* configparser rejects the file, or a section lacks 'path' or 'url'
          /\ pc' = "done"
          /\ \E e \in {"raise configparser.Error", "raise KeyError"} : ret' = e
          /\ UNCHANGED <<root_submodules, top, stack, url_sub>>
       \/ \E m \in RootManifests :
          /\ root_submodules' = get_repo_submodules(m)
          /\ TopContinue(root_submodules', 1, 1)
    /\ UNCHANGED <<inputs, exists, idx, cmds, errlog, special_config, nested>>

\* a rewrite whose exit status is not looked at
SetUrlNeverFails(rc) == FALSE

\* line 247: RunCmd(...) != 0
SetUrlFailed(rc) == rc # 0

\* lines 246-251: RunCmd("git", "submodule set-url -- name url_sub", workingdir=root_path)
SetUrl ==
    /\ pc = "set_url"
    /\ LET f == Frame(stack)
           submodule_info == Current(stack)
           repo_path == JoinPath(f.root_path, submodule_info.path)
       IN \E rc \in ExitCodes :
          /\ cmds' = Append(cmds, Cmd("set-url", f.root_path, <<submodule_info.name>>,
                                      <<>>, url_sub, rc, ""))
          /\ IF SetUrlFailed(rc)
             THEN ReturnFalse("Failed to update url", repo_path)
             ELSE pc' = "init" /\ UNCHANGED <<errlog, ret, stack, top, url_sub>>
    /\ UNCHANGED <<inputs, exists, idx, special_config, root_submodules, nested>>

\* an init whose exit status is not looked at
InitNeverFails(rc) == FALSE

\* an init that takes only a negative status for a failure
InitFailedIfNegative(rc) == rc < 0

\* line 257: RunCmd(...) != 0
InitFailed(rc) == rc # 0

\* lines 254-262: RunCmd("git", "submodule update --init -- path", workingdir=root_path)
SpecialInit ==
    /\ pc = "init"
    /\ LET f == Frame(stack)
           submodule_info == Current(stack)
           repo_path == JoinPath(f.root_path, submodule_info.path)
       IN \E rc \in ExitCodes :
          /\ cmds' = Append(cmds, Cmd("update", f.root_path, <<submodule_info.path>>,
                                      <<"--init">>, None, rc, ""))
          /\ IF InitFailed(rc)
             THEN /\ ReturnFalse("Failed to initialize repo", repo_path)
                  /\ exists' = exists
             ELSE /\ exists' = IF f.root_path = workspace_path
                               THEN exists \cup {submodule_info.path} ELSE exists
                  /\ errlog' = errlog
                  /\ IF f.recursive
                     THEN pc' = "manifest" /\ UNCHANGED <<ret, stack, top, url_sub>>
                     ELSE ReturnTrue
    /\ UNCHANGED <<inputs, idx, special_config, root_submodules, nested>>

\* a walk that finishes the siblings of a submodule before it descends into
\* the nested submodules of that submodule
DescendAfterSiblings(stk, frame) ==
    IF Tail(Frame(stk).todo) # <<>>
    THEN Front(stk)
         \o <<[frame EXCEPT !.todo = <<Current(stk)>> \o @]>>
         \o <<[Frame(stk) EXCEPT !.todo = Tail(@)]>>
    ELSE Append(stk, frame)

\* lines 264-266: the loop over the nested submodules runs inside the call of
\* their parent, before that call returns to the loop over its siblings
Descend(stk, frame) == Append(stk, frame)

\* lines 263-268: get_repo_submodules(repo_path=repo_path) and the loop entry
ReadManifest ==
    /\ pc = "manifest"
    /\ LET f == Frame(stack)
           repo_path == JoinPath(f.root_path, Current(stack).path)
           left == MaxNested - Len(nested)
           room == IF left < Len(KidPaths) THEN left ELSE Len(KidPaths)
       IN \/ \* configparser rejects the file, or a section lacks 'path' or 'url'
             /\ pc' = "done"
             /\ \E e \in {"raise configparser.Error", "raise KeyError"} : ret' = e
             /\ UNCHANGED <<top, stack, url_sub, nested>>
          \/ \E m \in NestedManifests(room) :
             LET submodules == get_repo_submodules(m) IN
             /\ nested' = nested \o [i \in DOMAIN submodules |->
                                        [path |-> JoinPath(repo_path, submodules[i].path),
                                         url |-> submodules[i].url]]
             /\ IF submodules = <<>>
                THEN ReturnTrue
                ELSE /\ BeginCall(Descend(stack, [root_path |-> repo_path,
                                                  todo |-> submodules,
                                                  recursive |-> f.recursive]))
                     /\ top' = top
    /\ UNCHANGED <<inputs, exists, idx, cmds, errlog, special_config, root_submodules>>

\* ------------------------------------------------------------ specifications
\* Go as a whole
Next ==
    \/ GitVersionCheck
    \/ CleanRootReset
    \/ CleanRootClean
    \/ CleanSubReset
    \/ CleanSubClean
    \/ Sync
    \/ DirtyQuery
    \/ Fetch
    \/ SpecialLoad
    \/ ReadRootManifest
    \/ SetUrl
    \/ SpecialInit
    \/ ReadManifest

Spec == Init /\ [][Next]_vars

\* Go without a special configuration file (standard mode)
InitStandard == Init /\ special_file = None

NextStandard ==
    \/ GitVersionCheck
    \/ CleanRootReset
    \/ CleanRootClean
    \/ CleanSubReset
    \/ CleanSubClean
    \/ Sync
    \/ DirtyQuery
    \/ Fetch

SpecStandard == InitStandard /\ [][NextStandard]_vars

\* SpecialSetup on its own, from its entry at line 212: Go calls it (line 143)
\* with a non-empty list, and it reads neither force_it nor the disk state
InitSpecial ==
    /\ required_submodules \in SeqsUpTo(RequiredSubmodule, MaxReq) \ {<<>>}
    /\ force_it = FALSE
    /\ special_file = <<"special.yml">>
    /\ omnicache_path = None
    /\ exists = Paths
    /\ pc = "special_load"
    /\ idx = 0
    /\ cmds = <<>>
    /\ errlog = <<>>
    /\ ret = "running"
    /\ special_config = [kind |-> "unloaded", url_substitutions |-> <<>>]
    /\ root_submodules = <<>>
    /\ top = <<0, 0>>
    /\ stack = <<>>
    /\ url_sub = None
    /\ nested = <<>>

NextSpecial ==
    \/ SpecialLoad
    \/ ReadRootManifest
    \/ SetUrl
    \/ SpecialInit
    \/ ReadManifest

SpecSpecial == InitSpecial /\ [][NextSpecial]_vars

\* get_url_substitution_from_list on its own: one special_init_submodule call
\* is entered with a record and a rule list drawn from larger sets
ResolveUrls == {<<"a", "b">>, <<"A", "b">>, <<"a", "B">>, <<"b", "a">>}
ResolveSubs == {<<"x">>, <<"y">>}
ResolveRule == [url : ResolveUrls \cup {Missing}, sub : ResolveSubs \cup {Missing}]

InitResolve ==
    /\ required_submodules = <<[path |-> "Common/Nt", recursive |-> FALSE]>>
    /\ force_it = FALSE
    /\ special_file = <<"special.yml">>
    /\ omnicache_path = None
    /\ exists = Paths
    /\ pc = "resolve"
    /\ idx = 0
    /\ cmds = <<>>
    /\ errlog = <<>>
    /\ ret = "running"
    /\ special_config \in [kind : {"ok"},
                           url_substitutions : SeqsUpTo(ResolveRule, MaxRules + 2)]
    /\ \E u \in ResolveUrls :
        /\ root_submodules = get_repo_submodules(<<Section("Common/Nt", u)>>)
        /\ stack = <<[root_path |-> workspace_path,
                      todo |-> root_submodules,
                      recursive |-> FALSE]>>
    /\ top = <<1, 1>>
    /\ url_sub = None
    /\ nested = <<>>

\* lines 239-244 for the record at hand
Resolve ==
    /\ pc = "resolve"
    /\ BeginCall(stack)
    /\ UNCHANGED <<inputs, exists, idx, cmds, errlog, special_config,
                   root_submodules, top, nested>>

NextResolve == Resolve

SpecResolve == InitResolve /\ [][NextResolve]_vars

\* ------------------------------------------------------------ type invariant
Outcomes == {"running", "0", "-1", "None", "raise RuntimeError", "raise OSError",
             "raise KeyError", "raise YAMLError", "raise configparser.Error"}

TypeOK ==
    /\ ret \in Outcomes
    /\ (pc = "done") = (ret # "running")
    /\ idx \in 0..MaxReq
    /\ Len(stack) <= MaxNested + 1
    /\ Len(nested) <= MaxNested

\* ------------------------------------------------------------ properties
\* a rule list in which every rule has both keys
WellFormed(R) == \A i \in DOMAIN R : R[i].url # Missing /\ R[i].sub # Missing

\* rule i of R has the url u, compared case-insensitively
Matches(u, R, i) == Lower(u) = Lower(R[i].url)

\* R with a copy of its rule i inserted so that the copy takes position k
WithCopy(R, i, k) == SubSeq(R, 1, k - 1) \o <<R[i]>> \o SubSeq(R, k, Len(R))

\* R with its rules i and i+1 exchanged
Swapped(R, i) ==
    [k \in DOMAIN R |-> IF k = i THEN R[i + 1] ELSE IF k = i + 1 THEN R[i] ELSE R[k]]

\* C1: for every url u and every rule list R whose rules have both keys,
\* get_url_substitution_from_list(u, R) is the 'sub' of the first rule whose
\* 'url' equals u case-insensitively, and None when there is none; exchanging
\* neighbours of which one does not match, or inserting a copy of the first
\* matching rule anywhere, leaves the result unchanged.
C1_FirstMatch ==
    LET u == root_submodules[1].url
        R == special_config.url_substitutions
        M == {i \in DOMAIN R : Matches(u, R, i)}
        first == CHOOSE i \in M : \A j \in M : i <= j
    IN (pc \in {"set_url", "init"} /\ special_config.kind = "ok" /\ WellFormed(R)
        /\ stack # <<>> /\ Current(stack) = root_submodules[1] /\ Len(stack) = 1) =>
        /\ url_sub = IF M = {} THEN None ELSE R[first].sub
        /\ (pc = "set_url") = (M # {})
        /\ \A i \in 1..(Len(R) - 1) :
              (i \notin M \/ (i + 1) \notin M) =>
                 get_url_substitution_from_list(u, Swapped(R, i)) = url_sub
        /\ M # {} => \A k \in 1..(Len(R) + 1) :
                 get_url_substitution_from_list(u, WithCopy(R, first, k)) = url_sub

\* C1 witness: the second rule is the first match, by case folding only, and
\* a later rule with another replacement matches as well
C1_Witness ==
    LET R == special_config.url_substitutions IN
    /\ pc = "set_url"
    /\ Len(R) = 3
    /\ WellFormed(R)
    /\ ~Matches(root_submodules[1].url, R, 1)
    /\ Matches(root_submodules[1].url, R, 2)
    /\ R[2].url # root_submodules[1].url
    /\ Matches(root_submodules[1].url, R, 3)
    /\ R[3].sub # R[2].sub
    /\ url_sub = R[2].sub

\* ---- standard mode (SpecStandard)
\* command k is a "submodule update --init" checkout
IsCheckout(k) == cmds[k].op = "update"

\* command k is a dirty query that ran and printed something
DirtyAt(k) == cmds[k].op = "diff" /\ cmds[k].rc = 0 /\ cmds[k].out # ""

\* command k is a dirty query that ran and printed nothing
CleanAt(k) == cmds[k].op = "diff" /\ cmds[k].rc = 0 /\ cmds[k].out = ""

\* command k is the first command of an iteration of the loop of STEP 2: a
\* dirty query, or a checkout that no clean dirty query precedes
StartsEntry(k) ==
    \/ cmds[k].op = "diff"
    \/ IsCheckout(k) /\ ~(k > 1 /\ CleanAt(k - 1))

\* the position in required_submodules of the iteration that issued command k
EntryOf(k) == Cardinality({j \in 1..k : StartsEntry(j)})

\* the loop of STEP 2 has left entry i behind and no command has followed
MovedPast(i) ==
    IF i < Len(required_submodules)
    THEN pc = "submodule" /\ idx = i + 1
    ELSE pc = "done"

\* command k + 1, when there is one, belongs to the entry after entry i
NextIsFor(k, i) ==
    k < Len(cmds) =>
        /\ i < Len(required_submodules)
        /\ cmds[k + 1].op \in {"diff", "update"}
        /\ cmds[k + 1].target = <<required_submodules[i + 1].path>>

\* entry i is the only declaration of its path
DeclaredOnce(i) ==
    \A j \in DOMAIN required_submodules :
        j # i => required_submodules[j].path # required_submodules[i].path

\* C2: in standard mode, when the dirty query of a declared submodule (path on
\* disk, force false) prints something, no checkout is issued for that entry:
\* the loop moves to the next declared submodule, and the run returns 0.
C2_DirtyIsSkipped ==
    \A k \in DOMAIN cmds :
        DirtyAt(k) =>
            LET i == EntryOf(k) IN
            /\ ~force_it
            /\ i \in DOMAIN required_submodules
            /\ cmds[k].target = <<required_submodules[i].path>>
            /\ k = Len(cmds) => MovedPast(i)
            /\ NextIsFor(k, i)
            /\ DeclaredOnce(i) =>
                  \A m \in DOMAIN cmds : IsCheckout(m) => cmds[m].target # cmds[k].target
            /\ pc = "done" => ret = "0"

\* C2 witness: the first of two declared submodules was dirty and skipped,
\* the second one was fetched, and Go returned 0
C2_Witness ==
    /\ pc = "done"
    /\ ret = "0"
    /\ Len(required_submodules) = 2
    /\ \E k \in DOMAIN cmds :
        /\ DirtyAt(k)
        /\ EntryOf(k) = 1
        /\ k < Len(cmds)
        /\ IsCheckout(k + 1)
        /\ cmds[k + 1].target # cmds[k].target

\* C3 (as claimed): once Go has ended without any spawned command exiting
\* nonzero and with a usable git, a checkout has been issued for every declared
\* submodule whose path is absent from the disk, force or not.  (A path that is
\* still absent at the end was absent from the start: only a checkout creates
\* it.)
C3_MissingPathIsFetched ==
    (/\ pc = "done"
     /\ ret # "raise RuntimeError"
     /\ \A k \in DOMAIN cmds : cmds[k].rc = 0) =>
        \A i \in DOMAIN required_submodules :
            required_submodules[i].path \notin exists =>
                \E k \in DOMAIN cmds :
                    IsCheckout(k) /\ cmds[k].target = <<required_submodules[i].path>>

\* C4: in standard mode a combined sync that exits nonzero is the last
\* command of the run: Go ends, and no dirty query or checkout is issued.
C4_SyncFailureAborts ==
    \A k \in DOMAIN cmds :
        (cmds[k].op = "sync" /\ cmds[k].rc # 0) =>
            /\ k = Len(cmds)
            /\ pc = "done"
            /\ \A m \in DOMAIN cmds : cmds[m].op \notin {"diff", "update"}

\* C4 witness: the sync for two declared submodules failed
C4_Witness ==
    /\ Len(required_submodules) = 2
    /\ cmds # <<>>
    /\ cmds[Len(cmds)].op = "sync"
    /\ cmds[Len(cmds)].rc # 0
    /\ cmds[Len(cmds)].target = submodule_string
    /\ pc = "done"

\* C5: in standard mode a checkout that exits nonzero for one declared
\* submodule is logged and ends that iteration only: the loop moves to the
\* next declared submodule, whose commands follow, and Go returns 0 however
\* many checkouts failed.
C5_FetchFailureIsLocal ==
    \A k \in DOMAIN cmds :
        (IsCheckout(k) /\ cmds[k].rc # 0) =>
            LET i == EntryOf(k) IN
            /\ i \in DOMAIN required_submodules
            /\ cmds[k].target = <<required_submodules[i].path>>
            /\ k = Len(cmds) => MovedPast(i)
            /\ NextIsFor(k, i)
            /\ \E e \in DOMAIN errlog :
                  errlog[e] = [msg |-> "Failed to fetch", what |-> cmds[k].target]
            /\ pc = "done" => ret = "0"

\* C5 witness: both checkouts of a run failed and Go returned 0
C5_Witness ==
    /\ pc = "done"
    /\ ret = "0"
    /\ \E k \in DOMAIN cmds :
        /\ k < Len(cmds)
        /\ IsCheckout(k) /\ cmds[k].rc # 0 /\ EntryOf(k) = 1
        /\ IsCheckout(k + 1) /\ cmds[k + 1].rc # 0 /\ EntryOf(k + 1) = 2

\* command k is a dirty query that could not run
FailedDiff(k) == cmds[k].op = "diff" /\ cmds[k].rc # 0

\* C16: in standard mode a dirty query that exits nonzero is not taken for
\* "not dirty": no checkout is issued for that declared entry (the next
\* command, if any, belongs to the next entry), the failure is logged as an
\* error for that submodule, the loop moves on and Go returns 0.
C16_FailedQueryIsNotClean ==
    \A k \in DOMAIN cmds :
        FailedDiff(k) =>
            LET i == EntryOf(k) IN
            /\ i \in DOMAIN required_submodules
            /\ cmds[k].target = <<required_submodules[i].path>>
            /\ k = Len(cmds) => MovedPast(i)
            /\ NextIsFor(k, i)
            /\ DeclaredOnce(i) =>
                  \A m \in DOMAIN cmds : IsCheckout(m) => cmds[m].target # cmds[k].target
            /\ \E e \in DOMAIN errlog :
                  errlog[e] = [msg |-> "Failed to fetch required repository!",
                               what |-> cmds[k].target]
            /\ pc = "done" => ret = "0"

\* C16 witness: the dirty query of the first of two declared submodules
\* failed, the second submodule was fetched and Go returned 0
C16_Witness ==
    /\ pc = "done"
    /\ ret = "0"
    /\ Len(required_submodules) = 2
    /\ Len(cmds) >= 3
    /\ FailedDiff(2)
    /\ IsCheckout(Len(cmds))
    /\ cmds[Len(cmds)].rc = 0
    /\ cmds[Len(cmds)].target # cmds[2].target

\* the checkout commands of the run
Checkouts == {k \in DOMAIN cmds : IsCheckout(k)}

\* the step taken at the head of an iteration of STEP 2, for entry idx: it
\* issues one command about that entry, a dirty query exactly if the path is
\* on disk and force is false, a checkout otherwise
QueryOrCheckout ==
    pc = "submodule" =>
        /\ Len(cmds') = Len(cmds) + 1
        /\ cmds'[Len(cmds')].target = <<required_submodules[idx].path>>
        /\ cmds'[Len(cmds')].op \in {"diff", "update"}
        /\ (cmds'[Len(cmds')].op = "diff") =
              (required_submodules[idx].path \in exists /\ ~force_it)

\* in forced mode no dirty query is issued and every entry the loop has left
\* behind has its checkout
ForcedChecksOutAll ==
    force_it =>
        /\ \A k \in DOMAIN cmds : cmds[k].op # "diff"
        /\ \A k \in Checkouts : cmds[k].target = <<required_submodules[EntryOf(k)].path>>
        /\ pc = "submodule" => Cardinality(Checkouts) = idx - 1
        /\ (pc = "done" /\ ret = "0") => Cardinality(Checkouts) = Len(required_submodules)

\* C17: in phase 2 of standard mode the dirty query is issued for a declared
\* submodule if and only if its path is on disk and force is false; in forced
\* mode no dirty query is ever issued and a checkout is issued for every
\* declared submodule, existing ones included.
C17_DirtyQueryIffExistsUnforced ==
    /\ []ForcedChecksOutAll
    /\ [][QueryOrCheckout]_vars

\* C17 witness: a forced run over two declared submodules, both on disk,
\* has issued its two checkouts without any dirty query and returned 0
C17_Witness ==
    /\ force_it
    /\ pc = "done"
    /\ ret = "0"
    /\ Len(required_submodules) = 2
    /\ \A i \in DOMAIN required_submodules : required_submodules[i].path \in exists
    /\ Cardinality(Checkouts) = 2
    /\ \A k \in DOMAIN cmds : cmds[k].op # "diff"

\* the sync commands of the run
Syncs == {k \in DOMAIN cmds : cmds[k].op = "sync"}

\* command k names every declared path, in declaration order
NamesEveryPath(k) ==
    /\ Len(cmds[k].target) = Len(required_submodules)
    /\ \A i \in DOMAIN required_submodules :
          cmds[k].target[i] = required_submodules[i].path

\* command k carries the option o
HasOpt(k, o) == \E i \in DOMAIN cmds[k].opt : cmds[k].opt[i] = o

\* the sync precedes every dirty query and checkout; each checkout is the one
\* of its declared entry, so there is at most one per entry and they come in
\* declaration order; its recursion is the entry's
SyncFirstThenCheckouts ==
    /\ \A k \in Syncs : NamesEveryPath(k) /\ cmds[k].wd = workspace_path
    /\ \A k \in DOMAIN cmds :
          cmds[k].op \in {"diff", "update"} =>
              \E s \in Syncs : s < k /\ cmds[s].rc = 0
    /\ \A k \in DOMAIN cmds :
          IsCheckout(k) =>
              /\ EntryOf(k) \in DOMAIN required_submodules
              /\ cmds[k].target = <<required_submodules[EntryOf(k)].path>>
              /\ HasOpt(k, "--recursive") = required_submodules[EntryOf(k)].recursive
              /\ \A m \in DOMAIN cmds : (IsCheckout(m) /\ k < m) => EntryOf(k) < EntryOf(m)

\* the only declared submodule is recursive
SingleRecursive == Len(required_submodules) = 1 /\ required_submodules[1].recursive

\* the path of the only declared submodule was absent when a finished run
\* without force began: it is still absent, or it was fetched without a
\* dirty query
WasMissing ==
    \/ required_submodules[1].path \notin exists
    \/ /\ ~force_it
       /\ \A k \in DOMAIN cmds : cmds[k].op # "diff"
       /\ \E k \in DOMAIN cmds : IsCheckout(k)

\* the run is one sync, then one recursion-enabled checkout, then return 0
SyncCheckoutReturn0 ==
    /\ Len(cmds) = 2
    /\ cmds[1].op = "sync"
    /\ IsCheckout(2) /\ HasOpt(2, "--recursive")
    /\ cmds[2].target = <<required_submodules[1].path>>
    /\ ret = "0"

\* C12 (as claimed): a finished standard run with a non-empty declared set,
\* a usable git and no command that exited nonzero holds exactly one sync
\* command, which names every declared path and precedes the dirty queries
\* and checkouts, and at most one checkout per declared entry, in declaration
\* order; for a single recursive entry whose path does not exist the run is
\* sync, recursive checkout, return 0.
C12_ExactlyOneSync ==
    (/\ pc = "done"
     /\ required_submodules # <<>>
     /\ ret # "raise RuntimeError"
     /\ \A k \in DOMAIN cmds : cmds[k].rc = 0) =>
        /\ Cardinality(Syncs) = 1
        /\ SyncFirstThenCheckouts
        /\ (SingleRecursive /\ WasMissing) => SyncCheckoutReturn0

\* C12, the part every standard run satisfies: at most one sync command,
\* and exactly one unless the run ended in the git version check or in the
\* forced clean; every dirty query and checkout follows a sync that exited 0;
\* at most one checkout per declared entry, in declaration order.  Without
\* force the single recursive entry whose path does not exist gives one sync
\* and, when it exits 0, one recursion-enabled checkout and return 0.
C12_SyncThenCheckouts ==
    /\ Cardinality(Syncs) <= 1
    /\ SyncFirstThenCheckouts
    /\ (pc = "done" /\ required_submodules # <<>>) =>
          (Syncs = {}) =
              \/ ret \in {"raise RuntimeError", "raise OSError"}
              \/ ret = "None" /\ cmds[Len(cmds)].op \in {"reset", "clean"}
    /\ (pc = "done" /\ SingleRecursive /\ WasMissing /\ ~force_it) =>
          \/ ret = "raise RuntimeError" /\ cmds = <<>>
          \/ /\ Len(cmds) = 1
             /\ cmds[1].op = "sync" /\ cmds[1].rc # 0
             /\ ret = "None"
          \/ cmds[1].rc = 0 /\ SyncCheckoutReturn0

\* ---- special mode (SpecSpecial)
\* the rule list of the loaded special configuration
Rules == special_config.url_substitutions

\* the special configuration has 'url_substitutions' and complete rules
ConfigWellFormed == special_config.kind = "ok" /\ WellFormed(Rules)

\* some rule has the url u, compared case-insensitively
HasMatch(u) == \E i \in DOMAIN Rules : Matches(u, Rules, i)

\* the replacement of the first rule that has the url u
FirstSub(u) ==
    Rules[CHOOSE i \in DOMAIN Rules :
            Matches(u, Rules, i) /\ \A j \in DOMAIN Rules : Matches(u, Rules, j) => i <= j].sub

\* depth of the submodule command k is about: 1 for a workspace submodule
Depth(k) == Len(cmds[k].wd) + 1

\* repository path of the submodule an init command k is about
RepoOf(k) == JoinPath(cmds[k].wd, cmds[k].target[1])

FailedInit(k) == IsCheckout(k) /\ cmds[k].rc # 0
FailedSetUrl(k) == cmds[k].op = "set-url" /\ cmds[k].rc # 0

Raised == {"raise RuntimeError", "raise OSError", "raise KeyError", "raise YAMLError",
           "raise configparser.Error"}

\* C6 (as claimed): when the init command of a submodule at depth k fails, the
\* run holds no init command for any submodule at depth k+1 or deeper, and
\* SpecialSetup returns -1.
C6_NoDeeperInitInRun ==
    \A k \in DOMAIN cmds :
        FailedInit(k) =>
            /\ \A m \in DOMAIN cmds : IsCheckout(m) => Depth(m) <= Depth(k)
            /\ pc = "done" => ret = "-1"

\* C6 (amended): when the init command of a submodule fails, it is the last
\* command of the run, so no init command is issued afterwards at any depth
\* (none for what is nested under the failed submodule); init commands
\* issued earlier for deeper submodules of other subtrees remain.
\* SpecialSetup logs the failure and returns -1.
C6_InitFailureStopsWalk ==
    \A k \in DOMAIN cmds :
        FailedInit(k) =>
            /\ k = Len(cmds)
            /\ pc = "done"
            /\ ret = "-1"
            /\ stack = <<>>
            /\ \E e \in DOMAIN errlog :
                  errlog[e] = [msg |-> "Failed to initialize repo", what |-> RepoOf(k)]

\* C6 witness: the init of a recursive workspace submodule fails after a
\* nested submodule of an earlier one has been initialised
C6_Witness ==
    /\ pc = "done"
    /\ ret = "-1"
    /\ cmds # <<>>
    /\ FailedInit(Len(cmds))
    /\ Depth(Len(cmds)) = 1
    /\ required_submodules[top[2]].recursive
    /\ \E m \in DOMAIN cmds : IsCheckout(m) /\ Depth(m) = 2 /\ cmds[m].rc = 0

\* the walk has run to its end (SpecialSetup returned), every command exited
\* 0 and no url of a record that was read has a matching rule
CleanRun ==
    /\ pc = "done"
    /\ ret \notin Raised
    /\ \A k \in DOMAIN cmds : cmds[k].rc = 0
    /\ \A i \in DOMAIN root_submodules : ~HasMatch(root_submodules[i].url)
    /\ \A n \in DOMAIN nested : ~HasMatch(nested[n].url)

\* number of init commands for the submodule at repository path rp
Inits(rp) == Cardinality({k \in DOMAIN cmds : IsCheckout(k) /\ RepoOf(k) = rp})

\* number of required entries that name the workspace path p
Declarations(p) ==
    Cardinality({j \in DOMAIN required_submodules : required_submodules[j].path = p})

\* number of times the nested record at repository path rp was read
Readings(rp) == Cardinality({n \in DOMAIN nested : nested[n].path = rp})

\* C7 (as claimed): in a walk where every command succeeds and no url matches
\* a rule, exactly one init command is issued per required submodule of the
\* root manifest and per nested record, no set-url command is issued and
\* SpecialSetup returns 0.
C7_ExactlyOneInit ==
    CleanRun =>
        /\ \A i \in DOMAIN root_submodules :
              Declarations(root_submodules[i].path) > 0 =>
                  Inits(JoinPath(workspace_path, root_submodules[i].path)) = 1
        /\ \A n \in DOMAIN nested : Inits(nested[n].path) = 1
        /\ \A k \in DOMAIN cmds : cmds[k].op # "set-url"
        /\ ret = "0"

\* C7 (amended): in such a walk one init command is issued per required entry
\* that names a submodule of the root manifest and per nested record read
\* under it, so a path that is declared twice is initialised twice, with its
\* nested submodules; when the required paths are pairwise distinct that is
\* exactly one init command per submodule at every depth.  Every command of
\* the run is such an init, no set-url command is issued and SpecialSetup
\* returns 0.
C7_OneInitPerDeclaration ==
    CleanRun =>
        /\ \A i \in DOMAIN root_submodules :
              Inits(JoinPath(workspace_path, root_submodules[i].path))
                  = Declarations(root_submodules[i].path)
        /\ \A n \in DOMAIN nested : Inits(nested[n].path) = Readings(nested[n].path)
        /\ (\A j \in DOMAIN required_submodules : DeclaredOnce(j)) =>
              /\ \A n \in DOMAIN nested : Inits(nested[n].path) = 1
              /\ \A i \in DOMAIN root_submodules :
                    Inits(JoinPath(workspace_path, root_submodules[i].path)) <= 1
        /\ \A k \in DOMAIN cmds :
              /\ IsCheckout(k)
              /\ \/ Depth(k) = 1 /\ \E i \in DOMAIN root_submodules :
                                       /\ cmds[k].target = <<root_submodules[i].path>>
                                       /\ Declarations(root_submodules[i].path) > 0
                 \/ Depth(k) > 1 /\ \E n \in DOMAIN nested : nested[n].path = RepoOf(k)
        /\ ret = "0"

\* C7 witness: a clean walk of two distinct required submodules, one of them
\* with two nested submodules, under a non-empty rule list
C7_Witness ==
    /\ CleanRun
    /\ ret = "0"
    /\ Rules # <<>>
    /\ Len(required_submodules) = 2
    /\ \A j \in DOMAIN required_submodules : DeclaredOnce(j)
    /\ Len(root_submodules) = 2
    /\ Len(nested) = 2
    /\ Len(cmds) = 4

\* C8: the init command of a record whose url has a matching rule is issued
\* only right after a set-url command for that record (same containing
\* repository, the record's name, the replacement of the first matching rule)
\* that exited 0; a set-url command that exits nonzero is the last command of
\* the run, and the failure is reported (-1).
C8_RewriteBeforeInit ==
        /\ (pc \in {"set_url", "init"} /\ HasMatch(Current(stack).url)) =>
              url_sub = FirstSub(Current(stack).url)
        /\ (pc = "set_url") => HasMatch(Current(stack).url)
        /\ (pc = "init" /\ HasMatch(Current(stack).url)) =>
              /\ cmds # <<>>
              /\ cmds[Len(cmds)] = Cmd("set-url", Frame(stack).root_path,
                                       <<Current(stack).name>>, <<>>,
                                       FirstSub(Current(stack).url), 0, "")
        /\ \A k \in DOMAIN cmds :
              /\ FailedSetUrl(k) => k = Len(cmds) /\ pc = "done" /\ ret = "-1"
              /\ (cmds[k].op = "set-url" /\ k < Len(cmds)) =>
                    /\ IsCheckout(k + 1)
                    /\ cmds[k + 1].wd = cmds[k].wd
                    /\ cmds[k + 1].target = cmds[k].target

\* C8 witness: a workspace submodule was rewritten and initialised, and the
\* rewrite of a submodule nested in it failed
C8_Witness ==
    /\ pc = "done"
    /\ ret = "-1"
    /\ Len(cmds) = 3
    /\ cmds[1].op = "set-url" /\ cmds[1].rc = 0 /\ cmds[1].url \in Subs
    /\ IsCheckout(2) /\ cmds[2].rc = 0
    /\ FailedSetUrl(3) /\ Depth(3) = 2

\* C10 (as claimed): when the special configuration lacks 'url_substitutions'
\* or holds a rule without 'url' or 'sub', special mode ends before any
\* set-url or init command is issued, so no run holds such a command.
C10_MalformedAbortsBeforeMutation ==
    (special_config.kind = "no_key" \/ (special_config.kind = "ok" /\ ~WellFormed(Rules))) =>
        \A k \in DOMAIN cmds : cmds[k].op \notin {"set-url", "update"}

\* command k is a set-url or init command that exited nonzero
FailedSpecial(k) == FailedInit(k) \/ FailedSetUrl(k)

\* C11: once a set-url or init command of the special-setup walk exits
\* nonzero, at any recursion level, it is the last command of the run: every
\* active call has returned (nothing is issued for the remaining nested
\* siblings, for the siblings of an ancestor or for a later required
\* submodule), the failure is logged and SpecialSetup returns -1.
C11_ShortCircuit ==
    \A k \in DOMAIN cmds :
        FailedSpecial(k) =>
            /\ k = Len(cmds)
            /\ \A m \in 1..(k - 1) : cmds[m].rc = 0
            /\ pc = "done"
            /\ ret = "-1"
            /\ stack = <<>>
            /\ errlog # <<>>
            /\ errlog[Len(errlog)] =
                  [msg |-> "failed to init",
                   what |-> JoinPath(workspace_path, root_submodules[top[1]].path)]

\* C11 witness: the init of the first of two nested siblings failed while
\* the second sibling and a later required submodule were still to come
C11_Witness ==
    /\ pc = "done"
    /\ ret = "-1"
    /\ cmds # <<>>
    /\ FailedInit(Len(cmds))
    /\ Depth(Len(cmds)) = 2
    /\ cmds[Len(cmds)].target = <<KidPaths[1]>>
    /\ Len(nested) = 2
    /\ nested[2].path = JoinPath(cmds[Len(cmds)].wd, KidPaths[2])
    /\ NextPair(root_submodules, top[1], top[2] + 1) # <<0, 0>>

\* an init command for the repository at path rp was issued before command
\* k and exited 0
InitialisedBefore(rp, k) ==
    \E m \in 1..(k - 1) : IsCheckout(m) /\ cmds[m].rc = 0 /\ RepoOf(m) = rp

\* C14: in every reachable state of the special-setup walk, a set-url or
\* init command for a nested submodule was issued only after an init command
\* for its parent had exited 0; the manifest of a submodule is read only
\* right after its own successful init, so every nested record that was read
\* and every active nested call has an initialised parent.
C14_ParentInitialisedFirst ==
    /\ \A k \in DOMAIN cmds :
          Depth(k) > 1 => InitialisedBefore(cmds[k].wd, k)
    /\ \A n \in DOMAIN nested :
          InitialisedBefore(Front(nested[n].path), Len(cmds) + 1)
    /\ \A d \in DOMAIN stack :
          d > 1 => InitialisedBefore(stack[d].root_path, Len(cmds) + 1)
    /\ pc = "manifest" =>
          /\ cmds # <<>>
          /\ IsCheckout(Len(cmds)) /\ cmds[Len(cmds)].rc = 0
          /\ RepoOf(Len(cmds)) = JoinPath(Frame(stack).root_path, Current(stack).path)
          /\ Frame(stack).recursive

\* C14 witness: a submodule nested two levels down has been initialised
\* after a rewrite one level above it, and its manifest is about to be read
C14_Witness ==
    /\ pc = "manifest"
    /\ Len(stack) = 3
    /\ Depth(Len(cmds)) = 3
    /\ \E k \in DOMAIN cmds : cmds[k].op = "set-url" /\ Depth(k) = 2

\* the first d components of the repository path command k is about
Pre(k, d) == SubSeq(RepoOf(k), 1, d)

\* commands k and m are about two sibling subtrees at depth d: submodules of
\* one repository, or anything nested under them
Siblings(k, m, d) ==
    /\ Depth(k) >= d /\ Depth(m) >= d
    /\ Pre(k, d - 1) = Pre(m, d - 1)
    /\ RepoOf(k)[d] # RepoOf(m)[d]

\* command k is the first command of a call of line 281: a set-url in the
\* workspace, or an init in the workspace that no such set-url precedes
StartsWalk(k) ==
    /\ Depth(k) = 1
    /\ \/ cmds[k].op = "set-url"
       \/ IsCheckout(k) /\ ~(k > 1 /\ cmds[k - 1].op = "set-url" /\ Depth(k - 1) = 1)

\* the call of line 281 that issued command k, counted from the first
WalkOf(k) == Cardinality({j \in 1..k : StartsWalk(j)})

\* C15 (as claimed): for two siblings at any level, top-level or nested,
\* every command for the first and for what is nested under it precedes
\* every command for the second and for what is nested under it: once a
\* command about the second subtree was issued, none follows about the first.
C15_SiblingsNeverInterleave ==
    \A k \in DOMAIN cmds : \A m \in (k + 1)..Len(cmds) : \A n \in (m + 1)..Len(cmds) :
        \A d \in 1..Depth(k) :
            (Siblings(k, m, d) /\ Depth(n) >= d) => Pre(n, d) # Pre(k, d)

\* C15 (amended): the order holds for any two top-level submodules over the
\* whole run, and for any two nested siblings within one walk of their
\* top-level submodule (one call of line 281, whose commands are all about
\* that submodule and what is nested under it).  A top-level submodule that
\* is declared twice is walked twice in a row, so its nested siblings are
\* visited again after the first walk.
C15_DepthFirstPerWalk ==
    /\ \A k \in DOMAIN cmds : WalkOf(k) >= 1
    /\ \A k \in DOMAIN cmds : ~StartsWalk(k) => Pre(k, 1) = Pre(k - 1, 1)
    /\ \A k \in DOMAIN cmds : \A m \in (k + 1)..Len(cmds) : \A n \in (m + 1)..Len(cmds) :
          \A d \in 1..Depth(k) :
              (/\ Siblings(k, m, d)
               /\ Depth(n) >= d
               /\ d > 1 => WalkOf(k) = WalkOf(n)) =>
                  Pre(n, d) # Pre(k, d)

\* C15 witness: a finished walk went two levels down under the first nested
\* sibling, then to the second nested sibling, then to another top-level
\* submodule
C15_Witness ==
    /\ pc = "done"
    /\ ret = "0"
    /\ \E k, m, n \in DOMAIN cmds :
          /\ k < m /\ m < n
          /\ Depth(k) = 3
          /\ Siblings(k, m, 2)
          /\ Siblings(m, n, 1)

\* the pair of loop positions of the w-th call of line 281
RECURSIVE NthPair(_)
NthPair(w) ==
    IF w = 1
    THEN NextPair(root_submodules, 1, 1)
    ELSE NextPair(root_submodules, NthPair(w - 1)[1], NthPair(w - 1)[2] + 1)

\* the required entry on whose behalf command k was issued
RequiredOf(k) == required_submodules[NthPair(WalkOf(k))[2]]

\* every active call carries the flag of the required entry being walked; a
\* command about a nested submodule, a nested record and a manifest read
\* occur only in the walk of a recursive entry; the walk of a non-recursive
\* entry is its optional set-url and its init
FlagIsUniform ==
    /\ \A d \in DOMAIN stack : stack[d].recursive = required_submodules[top[2]].recursive
    /\ \A k \in DOMAIN cmds :
          /\ WalkOf(k) >= 1
          /\ NthPair(WalkOf(k)) # <<0, 0>>
          /\ Depth(k) = 1 => cmds[k].target = <<RequiredOf(k).path>>
          /\ Depth(k) > 1 => RequiredOf(k).recursive
          /\ ~RequiredOf(k).recursive => StartsWalk(k) \/ StartsWalk(k - 1)
    /\ pc = "manifest" => required_submodules[top[2]].recursive
    /\ nested # <<>> => \E j \in DOMAIN required_submodules : required_submodules[j].recursive

\* the step of an init command that exits 0: the manifest of that submodule
\* is read next exactly if the required entry being walked is recursive, at
\* every depth
RecursionFollowsFlag ==
    (pc = "init" /\ Len(cmds') = Len(cmds) + 1 /\ cmds'[Len(cmds')].rc = 0) =>
        (pc' = "manifest") = required_submodules[top[2]].recursive

\* C18: the recursive flag of a required submodule reaches every level of
\* its walk unchanged: when it is false only the top-level submodule is
\* rewritten and initialised, no nested manifest is read and no command is
\* issued for a nested submodule; when it is true every submodule that is
\* initialised, at every depth, has its manifest read and its nested
\* submodules processed with recursive=true.
C18_FlagPropagates ==
    /\ []FlagIsUniform
    /\ [][RecursionFollowsFlag]_vars

\* C18 witness: a finished run walked a recursive entry two levels down and
\* a non-recursive entry with its one init
C18_Witness ==
    /\ pc = "done"
    /\ ret = "0"
    /\ \E k, m \in DOMAIN cmds :
          /\ Depth(k) = 3
          /\ RequiredOf(k).recursive
          /\ StartsWalk(m)
          /\ ~RequiredOf(m).recursive
          /\ m < Len(cmds) => StartsWalk(m + 1)

\* the root manifest has been read (lines 274-275 returned)
RootLoaded ==
    /\ pc \notin {"special_load", "root_manifest"}
    /\ ~(ret \in Raised /\ cmds = <<>> /\ root_submodules = <<>>)

\* no record of the root manifest has the path of required entry j
Unmatched(j) ==
    \A i \in DOMAIN root_submodules : root_submodules[i].path # required_submodules[j].path

\* C19: in special mode a required submodule whose path no record of the
\* root manifest has gets no command (none for it, none for anything under
\* its path) and no logged error; SpecialSetup returns 0 when every command
\* of the matched submodules exits 0 and nothing raises, and at once, with
\* no command at all, when no required submodule is matched.
C19_UnmatchedIsIgnored ==
    RootLoaded =>
        /\ \A j \in DOMAIN required_submodules :
              Unmatched(j) =>
                  /\ \A k \in DOMAIN cmds : Pre(k, 1) # <<required_submodules[j].path>>
                  /\ \A e \in DOMAIN errlog :
                        SubSeq(errlog[e].what, 1, 1) # <<required_submodules[j].path>>
        /\ (/\ pc = "done"
            /\ ret \notin Raised
            /\ \A k \in DOMAIN cmds : cmds[k].rc = 0) =>
              ret = "0" /\ errlog = <<>>
        /\ (\A j \in DOMAIN required_submodules : Unmatched(j)) =>
              /\ pc = "done"
              /\ ret = "0"
              /\ cmds = <<>>
              /\ errlog = <<>>

\* C19 witness: of two required submodules the root manifest has only the
\* second; that one was initialised and SpecialSetup returned 0
C19_Witness ==
    /\ pc = "done"
    /\ ret = "0"
    /\ Len(required_submodules) = 2
    /\ Unmatched(1)
    /\ ~Unmatched(2)
    /\ cmds # <<>>
    /\ \A k \in DOMAIN cmds : Pre(k, 1) = <<required_submodules[2].path>>

\* ---- Go as a whole (Spec)
\* C13 (as claimed): when nothing is declared, git is usable and every command
\* exits 0, Go issues no command, with or without force and special
\* configuration, and returns 0.
C13_EmptyIsNoOp ==
    (/\ required_submodules = <<>>
     /\ pc = "done"
     /\ ret # "raise RuntimeError"
     /\ \A k \in DOMAIN cmds : cmds[k].rc = 0) =>
        /\ cmds = <<>>
        /\ ret = "0"

\* C13 (amended): when nothing is declared, Go issues no submodule command
\* (sync, dirty query, set-url, submodule update) and does not load the
\* special configuration or a .gitmodules; without force it issues no command
\* at all, with force it still resets and cleans the workspace root, and only
\* the root.  It returns 0, unless git is unusable (RuntimeError) or a clean
\* command of the root exits nonzero (logged, None).
C13_EmptyTouchesRootOnly ==
    required_submodules = <<>> =>
        /\ \A k \in DOMAIN cmds :
              cmds[k].op \in {"reset", "clean"} /\ cmds[k].wd = workspace_path
        /\ ~force_it => cmds = <<>>
        /\ special_config.kind = "unloaded"
        /\ root_submodules = <<>> /\ nested = <<>>
        /\ pc = "done" =>
              \/ ret = "raise RuntimeError" /\ cmds = <<>>
              \/ /\ ret = "None"
                 /\ force_it
                 /\ cmds # <<>>
                 /\ cmds[Len(cmds)].rc # 0
                 /\ errlog # <<>>
              \/ /\ ret = "0"
                 /\ errlog = <<>>
                 /\ \A k \in DOMAIN cmds : cmds[k].rc = 0
                 /\ force_it => /\ Len(cmds) = 2
                                /\ cmds[1].op = "reset"
                                /\ cmds[2].op = "clean"

\* C13 witness: a forced run with a special configuration and nothing
\* declared has reset and cleaned the root and returned 0
C13_Witness ==
    /\ required_submodules = <<>>
    /\ force_it
    /\ special_file # None
    /\ pc = "done"
    /\ ret = "0"
    /\ Len(cmds) = 2
    /\ cmds[1].op = "reset" /\ cmds[2].op = "clean"

\* command k is a reset or clean command of the pre-setup cleaning
IsCleaning(k) == cmds[k].op \in {"reset", "clean"}

\* the declared entry whose directory the cleaning command k ran in; 0 for
\* the two commands of the workspace root
CleanedEntry(k) == IF k <= 2 THEN 0 ELSE ((k - 3) \div 2) + 1

\* C20: in forced mode a reset or clean command of the pre-setup cleaning
\* that exits nonzero, for the root or for a declared submodule, is the last
\* command of the run: Go logs it and returns None; the run holds cleaning
\* commands only, for the root and the declared entries up to the failing
\* one, and no sync, dirty query, checkout or special-setup step.
C20_CleanFailureReturnsNone ==
    \A k \in DOMAIN cmds :
        (IsCleaning(k) /\ cmds[k].rc # 0) =>
            /\ force_it
            /\ k = Len(cmds)
            /\ pc = "done"
            /\ ret = "None"
            /\ errlog = <<[msg |-> "Error while trying to clean the environment!",
                           what |-> cmds[k].wd]>>
            /\ \A m \in DOMAIN cmds :
                  /\ IsCleaning(m)
                  /\ m < k => cmds[m].rc = 0
                  /\ cmds[m].wd = IF CleanedEntry(m) = 0 THEN workspace_path
                                  ELSE <<required_submodules[CleanedEntry(m)].path>>
            /\ CleanedEntry(k) <= Len(required_submodules)
            /\ special_config.kind = "unloaded"
            /\ root_submodules = <<>>

\* C20 witness: the reset of the first of two declared submodules failed
\* after the root was cleaned; the second submodule was not touched
C20_Witness ==
    /\ force_it
    /\ pc = "done"
    /\ ret = "None"
    /\ Len(required_submodules) = 2
    /\ required_submodules[1].path # required_submodules[2].path
    /\ Len(cmds) = 3
    /\ cmds[3].op = "reset" /\ cmds[3].rc # 0
    /\ cmds[3].wd = <<required_submodules[1].path>>

C9_FailureGivesNonzeroStatus ==
    (pc = "done" /\ \E k \in DOMAIN cmds :
        cmds[k].op \in {"reset", "clean", "sync"} /\ cmds[k].rc # 0) => ret = "-1"

====
